---- MODULE Spec2Model ----
(***************************************************************************)
(* Model of data_cleaning.py: the sales-data cleaning pipeline.            *)
(*                                                                         *)
(* A string is a sequence of one-character strings, so that strip(),       *)
(* lower() and replace() are computed character by character.  A cell of   *)
(* a DataFrame is a record [k, n, s]: k is "na" (NaN / <NA>), "num" (the   *)
(* number n) or "text" (the string s).  A DataFrame is a record            *)
(* [cols, dtypes, rows]; a row is [id, cells], id being its index label.   *)
(***************************************************************************)
EXTENDS Integers, Sequences, FiniteSets, TLC

VARIABLES
    pc,          \* position of the __main__ script ("harness" when functions are called directly)
    fileExists,  \* os.path.exists(raw_path)
    file,        \* content of the raw CSV file: [header, lines]
    dirMade,     \* the processed directory has been created
    df_raw,      \* the DataFrame the script loaded
    df,          \* the DataFrame the caller currently holds
    op,          \* name of the last function called
    arg,         \* the DataFrame passed to that call
    ret,         \* its outcome: [exc, val]
    ran,         \* the functions called so far, in order
    written      \* the outcome written to cleaned_path: [done, val]

vars == <<pc, fileExists, file, dirMade, df_raw, df, op, arg, ret, ran, written>>

(***************************************************************************)
(* Bounds of the model.                                                    *)
(***************************************************************************)
MaxRows == 2

MaxNameLen == 3

(***************************************************************************)
(* Characters and strings.                                                 *)
(***************************************************************************)
Whitespace == {" ", "\t", "\n", "\r", "\f"}

UpperCase == <<"A","B","C","D","E","F","G","H","I","J","K","L","M",
               "N","O","P","Q","R","S","T","U","V","W","X","Y","Z">>

LowerCase == <<"a","b","c","d","e","f","g","h","i","j","k","l","m",
               "n","o","p","q","r","s","t","u","v","w","x","y","z">>

Digits == <<"0","1","2","3","4","5","6","7","8","9">>

IsUpper(c) == \E i \in DOMAIN UpperCase : UpperCase[i] = c

LowerChar(c) ==
    IF IsUpper(c)
    THEN LowerCase[CHOOSE i \in DOMAIN UpperCase : UpperCase[i] = c]
    ELSE c

RECURSIVE LStrip(_)
LStrip(s) ==
    IF s = <<>> THEN s
    ELSE IF Head(s) \in Whitespace THEN LStrip(Tail(s))
    ELSE s

RECURSIVE RStrip(_)
RStrip(s) ==
    IF s = <<>> THEN s
    ELSE IF s[Len(s)] \in Whitespace THEN RStrip(SubSeq(s, 1, Len(s) - 1))
    ELSE s

\* str.strip()
StrStrip(s) == RStrip(LStrip(s))

\* str.lower()
StrLower(s) == [i \in 1..Len(s) |-> LowerChar(s[i])]

\* str.replace(" ", "_")
StrReplaceSpace(s) == [i \in 1..Len(s) |-> IF s[i] = " " THEN "_" ELSE s[i]]

\* A normalization that forgets lower().
NormalizeNameNoLower(col) == StrReplaceSpace(StrStrip(col))

\* col.strip().lower().replace(" ", "_")
NormalizeName(col) == StrReplaceSpace(StrLower(StrStrip(col)))

price == <<"p","r","i","c","e">>

quantity == <<"q","u","a","n","t","i","t","y">>

required_columns == <<price, quantity>>

(***************************************************************************)
(* Cells, tables and outcomes.                                             *)
(***************************************************************************)
NA == [k |-> "na", n |-> 0, s |-> <<>>]

Num(i) == [k |-> "num", n |-> i, s |-> <<>>]

Text(t) == [k |-> "text", n |-> 0, s |-> t]

NoTable == [cols |-> <<>>, dtypes |-> <<>>, rows |-> <<>>]

Ok(t) == [exc |-> "none", val |-> t]

Raise(e) == [exc |-> e, val |-> NoTable]

NoCall == Raise("nocall")

\* The positions of the columns labelled name.
ColumnsNamed(t, name) == {i \in DOMAIN t.cols : t.cols[i] = name}

\* col in df.columns
HasColumn(t, name) == ColumnsNamed(t, name) # {}

(***************************************************************************)
(* The raw CSV file and pd.read_csv.                                       *)
(***************************************************************************)
IsDigit(c) == \E i \in DOMAIN Digits : Digits[i] = c

DigitVal(c) == (CHOOSE i \in DOMAIN Digits : Digits[i] = c) - 1

IsDigits(s) == s # <<>> /\ \A i \in DOMAIN s : IsDigit(s[i])

\* A field the parser reads as a number.
IsNumericField(f) ==
    \/ IsDigits(f)
    \/ Len(f) > 1 /\ f[1] = "-" /\ IsDigits(Tail(f))

RECURSIVE ParseNat(_)
ParseNat(s) ==
    IF s = <<>> THEN 0
    ELSE ParseNat(SubSeq(s, 1, Len(s) - 1)) * 10 + DigitVal(s[Len(s)])

ParseInt(f) == IF f[1] = "-" THEN 0 - ParseNat(Tail(f)) ELSE ParseNat(f)

\* A column is numeric when each of its fields is empty or a number;
\* otherwise it has dtype object and keeps its fields as strings.
ColumnIsNumeric(f, j) ==
    \A i \in DOMAIN f.lines : f.lines[i][j] = <<>> \/ IsNumericField(f.lines[i][j])

ParseField(fld, numeric) ==
    IF fld = <<>> THEN NA
    ELSE IF numeric THEN Num(ParseInt(fld))
    ELSE Text(fld)

\* pd.read_csv(file_path): first line is the header, an empty field is NaN,
\* the index is 0, 1, 2, ...
read_csv(f) ==
    [cols   |-> f.header,
     dtypes |-> [j \in DOMAIN f.header |->
                    IF ColumnIsNumeric(f, j) THEN "float64" ELSE "object"],
     rows   |-> [i \in DOMAIN f.lines |->
                    [id    |-> i - 1,
                     cells |-> [j \in DOMAIN f.header |->
                                  ParseField(f.lines[i][j], ColumnIsNumeric(f, j))]]]]

(***************************************************************************)
(* The functions of data_cleaning.py.                                      *)
(***************************************************************************)
\* A loader that does not check the path.
load_data_unchecked(exists, f) ==
    IF exists THEN Ok(read_csv(f)) ELSE Ok(read_csv([header |-> f.header, lines |-> <<>>]))

load_data(exists, f) ==
    IF ~exists THEN Raise("FileNotFoundError")
    ELSE Ok(read_csv(f))

clean_column_names(t) ==
    Ok([t EXCEPT !.cols = [i \in DOMAIN t.cols |-> NormalizeName(t.cols[i])]])

\* A strip that turns an empty result into a missing value.
StripCellEmptyIsNA(c) ==
    IF c.k = "text" THEN (IF StrStrip(c.s) = <<>> THEN NA ELSE Text(StrStrip(c.s))) ELSE c

\* Series.astype("string").str.strip() on one cell.
StripCell(c) == IF c.k = "text" THEN Text(StrStrip(c.s)) ELSE c

strip_whitespace_from_strings(t) ==
    LET string_columns == {j \in DOMAIN t.cols : t.dtypes[j] = "object"}
    IN  Ok([cols   |-> t.cols,
            dtypes |-> [j \in DOMAIN t.cols |->
                          IF j \in string_columns THEN "string" ELSE t.dtypes[j]],
            rows   |-> [i \in DOMAIN t.rows |->
                          [id    |-> t.rows[i].id,
                           cells |-> [j \in DOMAIN t.cols |->
                                        IF j \in string_columns
                                        THEN StripCell(t.rows[i].cells[j])
                                        ELSE t.rows[i].cells[j]]]]])

\* The first required column that is absent, as the loop over
\* required_columns finds it (0 when none is absent).
FirstAbsent(t) ==
    IF ~HasColumn(t, required_columns[1]) THEN 1
    ELSE IF ~HasColumn(t, required_columns[2]) THEN 2
    ELSE 0

\* df.dropna(subset=required_columns): a row goes when any cell under a
\* label of the subset is missing.
DropNa(t) ==
    LET subset == {j \in DOMAIN t.cols :
                     \E c \in DOMAIN required_columns : t.cols[j] = required_columns[c]}
        Keep(r) == \A j \in subset : r.cells[j].k # "na"
    IN  [t EXCEPT !.rows = SelectSeq(t.rows, Keep)]

\* A filter that looks at price only.
handle_missing_values_price_only(t) ==
    IF ~HasColumn(t, price) THEN Raise("KeyError")
    ELSE LET Keep(r) == \A j \in ColumnsNamed(t, price) : r.cells[j].k # "na"
         IN  Ok([t EXCEPT !.rows = SelectSeq(t.rows, Keep)])

\* A filter that takes a zero for a missing value.
handle_missing_values_falsy(t) ==
    IF FirstAbsent(t) # 0 THEN Raise("KeyError")
    ELSE LET d == DropNa(t)
             j == CHOOSE c \in ColumnsNamed(t, price) : TRUE
             Keep(r) == ~(r.cells[j].k = "num" /\ r.cells[j].n = 0)
         IN  Ok([d EXCEPT !.rows = SelectSeq(d.rows, Keep)])

handle_missing_values(t) ==
    IF FirstAbsent(t) # 0 THEN Raise("KeyError")
    ELSE Ok(DropNa(t))

\* An element of (Series >= 0): NaN and <NA> give False.
GeZero(c) == c.k = "num" /\ c.n >= 0

\* The comparison Series >= 0 raises TypeError when the column holds a string.
ComparisonRaises(t, j) == \E i \in DOMAIN t.rows : t.rows[i].cells[j].k = "text"

\* df[(df["price"] >= 0) & (df["quantity"] >= 0)].  With a duplicated label
\* df[label] is a DataFrame and aligning it with the other operand fails.
BooleanFilter(t) ==
    IF Cardinality(ColumnsNamed(t, price)) > 1 \/ Cardinality(ColumnsNamed(t, quantity)) > 1
    THEN Raise("ValueError")
    ELSE LET p == CHOOSE j \in ColumnsNamed(t, price) : TRUE
             q == CHOOSE j \in ColumnsNamed(t, quantity) : TRUE
             Keep(r) == GeZero(r.cells[p]) /\ GeZero(r.cells[q])
         IN  IF ComparisonRaises(t, p) \/ ComparisonRaises(t, q)
             THEN Raise("TypeError")
             ELSE Ok([t EXCEPT !.rows = SelectSeq(t.rows, Keep)])

\* A filter that rejects zero.
remove_invalid_rows_positive(t) ==
    IF FirstAbsent(t) # 0 THEN Raise("KeyError")
    ELSE LET b == BooleanFilter(t)
             p == CHOOSE j \in ColumnsNamed(t, price) : TRUE
             q == CHOOSE j \in ColumnsNamed(t, quantity) : TRUE
             Keep(r) == r.cells[p].n > 0 /\ r.cells[q].n > 0
         IN  IF b.exc # "none" THEN b
             ELSE Ok([b.val EXCEPT !.rows = SelectSeq(b.val.rows, Keep)])

\* A filter that lets a missing value pass the comparison.
remove_invalid_rows_nan_passes(t) ==
    IF FirstAbsent(t) # 0 THEN Raise("KeyError")
    ELSE LET b == BooleanFilter(t)
             p == CHOOSE j \in ColumnsNamed(t, price) : TRUE
             q == CHOOSE j \in ColumnsNamed(t, quantity) : TRUE
             Keep(r) == /\ (r.cells[p].k = "na" \/ GeZero(r.cells[p]))
                        /\ (r.cells[q].k = "na" \/ GeZero(r.cells[q]))
         IN  IF b.exc # "none" THEN b
             ELSE Ok([t EXCEPT !.rows = SelectSeq(t.rows, Keep)])

\* A filter that does not check for quantity.
remove_invalid_rows_unchecked(t) ==
    IF ~HasColumn(t, price) THEN Raise("KeyError")
    ELSE IF ~HasColumn(t, quantity) THEN Ok(t)
    ELSE BooleanFilter(t)

remove_invalid_rows(t) ==
    IF FirstAbsent(t) # 0 THEN Raise("KeyError")
    ELSE BooleanFilter(t)

(***************************************************************************)
(* The raw files the model reads.                                          *)
(***************************************************************************)
HeaderPriceQuantity == << <<" ","P","r","i","c","e"," ">>, <<"Q","u","a","n","t","i","t","y">> >>

HeaderNoQuantity == << <<"\t","p","r","i","c","e","\n">>, <<"I","t","e","m"," ","Q","t","y">> >>

HeaderNoPrice == << <<"U","n","i","t"," ","P","r","i","c","e">>, <<"q","u","a","n","t","i","t","y">> >>

HeaderCollision == << <<" ","Q","u","a","n","t","i","t","y">>, <<"q","u","a","n","t","i","t","y">> >>

HeaderWideCollision == << <<"P","R","I","C","E">>, <<"p","r","i","c","e">>, <<"q","u","a","n","t","i","t","y"," ">> >>

NumericFields == { <<>>, <<"-","1">>, <<"0">> }

TextField == <<" ","a"," ">>

BlankField == <<" ">>

\* The lines a two-column file may hold: numbers, empty fields, a padded
\* string in the first column and a blank string in the second.
NarrowLines ==
    {<<a, b>> : a \in NumericFields \cup {TextField}, b \in NumericFields \cup {BlankField}}

\* The lines the three-column file may hold.
WideLines == {<<a, b, c>> : a \in {<<>>, <<"0">>}, b \in NumericFields, c \in NumericFields}

\* The headers of the one-column files: every name of at most MaxNameLen
\* characters over NameChars.
NameChars == {" ", "\t", "Q", "q", "_"}

NameHeaders == UNION { {<<name>> : name \in [1..n -> NameChars]} : n \in 1..MaxNameLen }

HarnessFamilies ==
    { [header |-> HeaderPriceQuantity, lines |-> NarrowLines],
      [header |-> HeaderNoQuantity, lines |-> NarrowLines],
      [header |-> HeaderCollision, lines |-> NarrowLines],
      [header |-> HeaderWideCollision, lines |-> WideLines] }
        \cup { [header |-> h, lines |-> {}] : h \in NameHeaders }

ScriptFamilies ==
    { [header |-> HeaderPriceQuantity, lines |-> NarrowLines],
      [header |-> HeaderNoPrice, lines |-> NarrowLines],
      [header |-> HeaderWideCollision, lines |-> WideLines] }

\* f is a file of one of the families, of at most MaxRows lines.
IsFileOf(families, f) ==
    \E fam \in families : \E n \in 0..MaxRows : \E l \in [1..n -> fam.lines] :
        f = [header |-> fam.header, lines |-> l]

NoFile == [header |-> <<>>, lines |-> <<>>]

NotWritten == [done |-> FALSE, val |-> NoTable]

(***************************************************************************)
(* The __main__ script.                                                    *)
(***************************************************************************)
Init ==
    /\ pc = "makedirs"
    /\ fileExists \in BOOLEAN
    /\ IF fileExists THEN IsFileOf(ScriptFamilies, file) ELSE file = NoFile
    /\ dirMade = FALSE
    /\ df_raw = NoTable
    /\ df = NoTable
    /\ op = "none"
    /\ arg = NoTable
    /\ ret = NoCall
    /\ ran = <<>>
    /\ written = NotWritten

\* One statement of the script calling a function: an exception that is
\* not caught ends the script.
Stage(here, next, name, a, r) ==
    /\ pc = here
    /\ op' = name
    /\ arg' = a
    /\ ret' = r
    /\ ran' = Append(ran, name)
    /\ IF r.exc = "none"
       THEN pc' = next /\ df' = r.val
       ELSE pc' = "aborted" /\ df' = df
    /\ UNCHANGED <<fileExists, file, dirMade, written>>

\* os.makedirs(processed_dir, exist_ok=True)
MainMakedirs ==
    /\ pc = "makedirs"
    /\ pc' = "load"
    /\ dirMade' = TRUE
    /\ UNCHANGED <<fileExists, file, df_raw, df, op, arg, ret, ran, written>>

\* df_raw = load_data(raw_path)
MainLoad ==
    /\ Stage("load", "clean", "load_data", NoTable, load_data(fileExists, file))
    /\ df_raw' = df'

\* df_clean = clean_column_names(df_raw)
MainCleanColumnNames ==
    /\ Stage("clean", "strip", "clean_column_names", df, clean_column_names(df))
    /\ UNCHANGED df_raw

\* df_clean = strip_whitespace_from_strings(df_clean)
MainStripWhitespace ==
    /\ Stage("strip", "missing", "strip_whitespace_from_strings", df,
             strip_whitespace_from_strings(df))
    /\ UNCHANGED df_raw

\* df_clean = handle_missing_values(df_clean)
MainHandleMissing ==
    /\ Stage("missing", "invalid", "handle_missing_values", df, handle_missing_values(df))
    /\ UNCHANGED df_raw

\* df_clean = remove_invalid_rows(df_clean)
MainRemoveInvalid ==
    /\ Stage("invalid", "save", "remove_invalid_rows", df, remove_invalid_rows(df))
    /\ UNCHANGED df_raw

\* The Writer: the final table is persisted to cleaned_path.
MainSave ==
    /\ pc = "save"
    /\ dirMade
    /\ pc' = "done"
    /\ written' = [done |-> TRUE, val |-> df]
    /\ UNCHANGED <<fileExists, file, dirMade, df_raw, df, op, arg, ret, ran>>

Next ==
    \/ MainMakedirs
    \/ MainLoad
    \/ MainCleanColumnNames
    \/ MainStripWhitespace
    \/ MainHandleMissing
    \/ MainRemoveInvalid
    \/ MainSave

Spec == Init /\ [][Next]_vars

(***************************************************************************)
(* The functions called directly, in any order, on a loaded table.         *)
(***************************************************************************)
InitCalls ==
    /\ pc = "harness"
    /\ fileExists = TRUE
    /\ file = NoFile
    /\ dirMade = FALSE
    /\ df_raw = NoTable
    /\ \E fam \in HarnessFamilies : \E n \in 0..MaxRows : \E l \in [1..n -> fam.lines] :
           df = read_csv([header |-> fam.header, lines |-> l])
    /\ op = "none"
    /\ arg = NoTable
    /\ ret = NoCall
    /\ ran = <<>>
    /\ written = NotWritten

\* A call f(df): each function works on a copy, so a call that raises
\* leaves the caller's table as it was.
Call(name, r) ==
    /\ pc = "harness"
    /\ op' = name
    /\ arg' = df
    /\ ret' = r
    /\ df' = IF r.exc = "none" THEN r.val ELSE df
    /\ UNCHANGED <<pc, fileExists, file, dirMade, df_raw, ran, written>>

CallCleanColumnNames == Call("clean_column_names", clean_column_names(df))

CallStripWhitespace == Call("strip_whitespace_from_strings", strip_whitespace_from_strings(df))

CallHandleMissing == Call("handle_missing_values", handle_missing_values(df))

CallRemoveInvalid == Call("remove_invalid_rows", remove_invalid_rows(df))

NextCalls ==
    \/ CallCleanColumnNames
    \/ CallStripWhitespace
    \/ CallHandleMissing
    \/ CallRemoveInvalid

SpecCalls == InitCalls /\ [][NextCalls]_vars

(***************************************************************************)
(* Vocabulary of the properties.                                           *)
(***************************************************************************)
HasBoth(t) == HasColumn(t, price) /\ HasColumn(t, quantity)

\* Row r of table t has a missing value under the label name.
Missing(t, r, name) == \E j \in ColumnsNamed(t, name) : r.cells[j].k = "na"

\* Row r of table t has a number >= 0 under the label name.
NonNegative(t, r, name) ==
    \A j \in ColumnsNamed(t, name) : r.cells[j].k = "num" /\ r.cells[j].n >= 0

\* Row r of table t holds a string under the label name.
HoldsText(t, r, name) == \E j \in ColumnsNamed(t, name) : r.cells[j].k = "text"

Contains(t, r) == \E i \in DOMAIN t.rows : t.rows[i] = r

HasId(t, id) == \E i \in DOMAIN t.rows : t.rows[i].id = id

InOrder(t) == \A i, j \in DOMAIN t.rows : i < j => t.rows[i].id < t.rows[j].id

\* out has the columns of in and some of its rows, unchanged, in the order
\* they have in in, none of them twice.
IsSubtable(out, in) ==
    /\ out.cols = in.cols
    /\ out.dtypes = in.dtypes
    /\ InOrder(in)
    /\ InOrder(out)
    /\ \A i \in DOMAIN out.rows : Contains(in, out.rows[i])
    /\ Len(out.rows) <= Len(in.rows)

\* The labels price and quantity each name exactly one column.
UniqueRequired(t) ==
    Cardinality(ColumnsNamed(t, price)) = 1 /\ Cardinality(ColumnsNamed(t, quantity)) = 1

Distinct(seq) == \A i, j \in DOMAIN seq : i # j => seq[i] # seq[j]

\* A normalized column identifier.
IsNormal(name) ==
    /\ name # <<>> => (Head(name) \notin Whitespace /\ name[Len(name)] \notin Whitespace)
    /\ \A i \in DOMAIN name : ~IsUpper(name[i]) /\ name[i] # " "

IsBlank(str) == \A i \in DOMAIN str : str[i] \in Whitespace

IsTrimmed(str) ==
    str # <<>> => (Head(str) \notin Whitespace /\ str[Len(str)] \notin Whitespace)

\* remove_invalid_rows(handle_missing_values(t))
MissingThenInvalid(t) ==
    LET r == handle_missing_values(t)
    IN  IF r.exc = "none" THEN remove_invalid_rows(r.val) ELSE r

\* handle_missing_values(remove_invalid_rows(t))
InvalidThenMissing(t) ==
    LET r == remove_invalid_rows(t)
    IN  IF r.exc = "none" THEN handle_missing_values(r.val) ELSE r

(***************************************************************************)
(* C1.  On a table with a price and a quantity column,                     *)
(* handle_missing_values returns exactly the rows in which neither price   *)
(* nor quantity is missing, in their original order: no surviving row has  *)
(* a missing price or quantity, no row with both present is dropped, no    *)
(* row is added, duplicated or reordered.                                  *)
(***************************************************************************)
C1_RequiredValueFilter ==
    (op = "handle_missing_values" /\ HasBoth(arg)) =>
        /\ ret.exc = "none"
        /\ IsSubtable(ret.val, arg)
        /\ \A i \in DOMAIN ret.val.rows :
              /\ ~Missing(arg, ret.val.rows[i], price)
              /\ ~Missing(arg, ret.val.rows[i], quantity)
        /\ \A k \in DOMAIN arg.rows :
              (~Missing(arg, arg.rows[k], price) /\ ~Missing(arg, arg.rows[k], quantity))
                  => Contains(ret.val, arg.rows[k])

C1_Witness ==
    /\ op = "handle_missing_values"
    /\ ret.exc = "none"
    /\ Len(ret.val.rows) >= 1
    /\ Len(ret.val.rows) < Len(arg.rows)

C3_MissingColumn ==
    (op \in {"handle_missing_values", "remove_invalid_rows"} /\ ~HasBoth(arg)) =>
        /\ ret.exc = "KeyError"
        /\ ret.val = NoTable
        /\ df = arg

C3_Witness ==
    /\ op = "remove_invalid_rows"
    /\ ret.exc = "KeyError"
    /\ HasColumn(arg, price)
    /\ arg.rows # <<>>

(***************************************************************************)
(* C5.  When remove_invalid_rows is given a table that still has missing   *)
(* values, a missing price or quantity fails the >= 0 check: no row with   *)
(* a missing price or quantity is in the output, and the comparison with   *)
(* a missing value raises nothing (the filter raises only when a required  *)
(* column holds a string or a required label is duplicated).               *)
(***************************************************************************)
C5_MissingFailsCheck ==
    (op = "remove_invalid_rows" /\ HasBoth(arg)) =>
        /\ \A k \in DOMAIN arg.rows :
              (Missing(arg, arg.rows[k], price) \/ Missing(arg, arg.rows[k], quantity))
                  => ~HasId(ret.val, arg.rows[k].id)
        /\ ret.exc # "none" =>
              \/ ~UniqueRequired(arg)
              \/ \E k \in DOMAIN arg.rows :
                    HoldsText(arg, arg.rows[k], price) \/ HoldsText(arg, arg.rows[k], quantity)

C5_Witness ==
    /\ op = "remove_invalid_rows"
    /\ ret.exc = "none"
    /\ ret.val.rows # <<>>
    /\ \E k \in DOMAIN arg.rows : Missing(arg, arg.rows[k], price)

(***************************************************************************)
(* C6.  After clean_column_names the column identifiers are pairwise       *)
(* distinct: when two raw names normalize to the same identifier the       *)
(* stage fails with a duplicate-column condition instead of returning a    *)
(* table with duplicated columns.                                          *)
(***************************************************************************)
C6_UniqueIdentifiers ==
    op = "clean_column_names" =>
        IF Distinct([j \in DOMAIN arg.cols |-> NormalizeName(arg.cols[j])])
        THEN ret.exc = "none" /\ Distinct(ret.val.cols)
        ELSE ret.exc = "DuplicateColumnError"

(***************************************************************************)
(* C7.  clean_column_names is idempotent on column identifiers: applied    *)
(* to its own output it returns the same identifiers in the same           *)
(* positions; each identifier after one application has no leading or      *)
(* trailing whitespace, no uppercase letter and no space; the rows are     *)
(* unchanged by either application.                                        *)
(***************************************************************************)
C7_NormalizerIdempotent ==
    op = "clean_column_names" =>
        LET again == clean_column_names(ret.val)
        IN  /\ ret.exc = "none"
            /\ Len(ret.val.cols) = Len(arg.cols)
            /\ \A j \in DOMAIN ret.val.cols : IsNormal(ret.val.cols[j])
            /\ ret.val.rows = arg.rows
            /\ ret.val.dtypes = arg.dtypes
            /\ again.exc = "none"
            /\ again.val.cols = ret.val.cols
            /\ again.val.rows = arg.rows

C7_Witness ==
    /\ op = "clean_column_names"
    /\ ret.exc = "none"
    /\ arg.rows # <<>>
    /\ \E j \in DOMAIN arg.cols :
          /\ ret.val.cols[j] # arg.cols[j]
          /\ \E i \in DOMAIN arg.cols[j] : IsUpper(arg.cols[j][i])
          /\ \E i \in DOMAIN arg.cols[j] : arg.cols[j][i] = " "

RawColumns(name) == {j \in DOMAIN df_raw.cols : NormalizeName(df_raw.cols[j]) = name}

RawHasBoth == RawColumns(price) # {} /\ RawColumns(quantity) # {}

\* A valid row: price and quantity are both present and both >= 0.
RawValid(r) ==
    \A j \in RawColumns(price) \cup RawColumns(quantity) :
        r.cells[j].k = "num" /\ r.cells[j].n >= 0

Finished == pc \in {"done", "aborted"}

Called(name) == \E i \in DOMAIN ran : ran[i] = name

\* The rows of the final table are the valid rows of the loaded table, in
\* their original order.
FinalRowsAreValidRows ==
    /\ InOrder(written.val)
    /\ \A i \in DOMAIN written.val.rows : HasId(df_raw, written.val.rows[i].id)
    /\ \A k \in DOMAIN df_raw.rows :
          RawValid(df_raw.rows[k]) <=> HasId(written.val, df_raw.rows[k].id)

(***************************************************************************)
(* C4.  For the whole pipeline run in its fixed order on a raw table       *)
(* whose headers normalize to include price and quantity, a row is in the  *)
(* final table if and only if it is valid (price and quantity both         *)
(* present and both >= 0), and the surviving rows keep their order.        *)
(***************************************************************************)
C4_PipelineKeepsValidRows ==
    (Finished /\ Called("clean_column_names") /\ RawHasBoth) => FinalRowsAreValidRows

\* The same, for the raw tables whose normalized headers do not collide.
C4_WithoutCollision ==
    (Finished /\ Called("clean_column_names") /\ RawHasBoth
        /\ Distinct([j \in DOMAIN df_raw.cols |-> NormalizeName(df_raw.cols[j])]))
        => FinalRowsAreValidRows

(***************************************************************************)
(* C9.  A stage failure aborts the whole run: when the input path does     *)
(* not exist (FileNotFoundError) or a required column is absent when a     *)
(* filter runs (KeyError), no later stage is executed and the output file  *)
(* is never written; a missing input file fails the run before any         *)
(* cleaning stage has processed a row.                                     *)
(***************************************************************************)
C9_FailureAborts ==
    /\ ~fileExists =>
          /\ ran \in {<<>>, <<"load_data">>}
          /\ ~written.done
          /\ df = NoTable
          /\ ran # <<>> => (pc = "aborted" /\ ret.exc = "FileNotFoundError")
    /\ (Called("clean_column_names") /\ ~RawHasBoth) =>
          /\ ~written.done
          /\ ~Called("remove_invalid_rows")
          /\ Called("handle_missing_values") =>
                /\ pc = "aborted"
                /\ ret.exc = "KeyError"
                /\ ran[Len(ran)] = "handle_missing_values"
    /\ ret.exc \notin {"none", "nocall"} =>
          /\ pc = "aborted"
          /\ ~written.done
          /\ ran[Len(ran)] = op
    /\ pc = "aborted" => (ret.exc \notin {"none", "nocall"} /\ ~written.done)

C9_Witness ==
    /\ pc = "aborted"
    /\ ~fileExists
    /\ dirMade
    /\ ret.exc = "FileNotFoundError"

====
